---- MODULE Spec2Model ----
(***************************************************************************)
(* Pastel Design Studio (src/script.js): the scene model (appState), the   *)
(* pointer interaction state machine, the layer ordering and the           *)
(* localStorage checkpoint, as a state machine.                            *)
(*                                                                         *)
(* Numbers.  JavaScript numbers are modelled by integers plus one value    *)
(* NaN (a reserved integer no computation of the model produces); every    *)
(* arithmetic operator used by the code is an operator here that           *)
(* propagates NaN as IEEE-754 does, and every comparison with NaN is       *)
(* false.  An element id 'el_' + Date.now() is modelled by the clock value *)
(* itself (prefixing is injective); null is the reserved id NULL.          *)
(* Fields of an element the handlers modelled here never read or write     *)
(* (backgroundColor, content, fontSize, color) are left out, and with them *)
(* the colour and text inputs, which write only those fields.  Products    *)
(* with Math.cos and Math.sin are computed in thousandths and rounded      *)
(* down to an integer; they are exact for rotations that are multiples of  *)
(* 90 degrees.                                                             *)
(***************************************************************************)
EXTENDS Integers, Sequences, FiniteSets

VARIABLES
    pc,             \* "boot" before init(), "ready" after it, "crashed" if init() threw
    storage,        \* localStorage['pastel_design_elements']: [kind, val]
    now,            \* the value Date.now() returns
    elements,       \* appState.elements
    selectedId,     \* appState.selectedId
    activeTool,     \* appState.activeTool
    isDragging,     \* appState.isDragging
    isResizing,     \* appState.isResizing
    isRotating,     \* appState.isRotating
    dragStart,      \* appState.dragStart
    resizeHandle,   \* appState.resizeHandle
    initialElProps, \* appState.initialElProps: <<>> for null, <<snapshot>> otherwise
    work,           \* history: creations, gesture starts and key or field updates so far
    selNotes        \* history: selectElement calls (selection renders) of the last handler

vars == <<pc, storage, now, elements, selectedId, activeTool, isDragging,
          isResizing, isRotating, dragStart, resizeHandle, initialElProps, work, selNotes>>

(* ------------------------------ bounds --------------------------------- *)

\* a run holds at most this many creations, gesture starts (mousedown on an
\* element or a handle) and updateElement calls of the keyboard and the
\* property fields in all, after init(); the mousemove events of a gesture are
\* not counted (each recomputes from the snapshot, however many there are)
MaxWork == 2

(* --------------------------- program constants -------------------------- *)

DEFAULT_RECT_W == 150
DEFAULT_RECT_H == 100
DEFAULT_TEXT_W == 200
DEFAULT_TEXT_H == 60
DEFAULT_POS == 100
MIN_SIZE == 20
STEP == 5

\* parseInt('') and every arithmetic on it
NaN == -1000000
\* null as appState.selectedId
NULL == 0
\* null as a number field of a stored element (JSON.stringify of NaN)
JsonNull == -1000001
\* dom.artboard.getBoundingClientRect().left / .top
ArtLeft == 10
ArtTop == 10
\* Date.now() when the page is opened
InitClock == 2

(* ------------------------------ inputs ---------------------------------- *)

Tools == {"select", "rectangle", "text"}
Kinds == {"rectangle", "text"}
ResizeHandles == {"nw", "ne", "sw", "se"}
AllHandles == ResizeHandles \cup {"rotate"}
ArrowKeys == {"ArrowUp", "ArrowDown", "ArrowLeft", "ArrowRight"}
NumericKeys == {"x", "y", "w", "h", "rot"}

\* (clientX, clientY) of the mousedown events that start a gesture
Points == { [x |-> 55, y |-> 40] }

\* (clientX, clientY) of the mousedown events that create an element
CreatePoints == { [x |-> 85, y |-> 60] }

\* parseInt(e.target.value) of an input event on a numeric property field:
\* an emptied field, a negative number
FieldValues == { NaN, -90 }

\* a mousemove event: its (clientX, clientY) as p and, for handleRotate, the
\* direction d of that position from the centre of the selected element, as
\* (sign of clientX - cx, sign of clientY - cy): above the centre, above and
\* left of it, right of it; screen y grows downwards.  From a gesture started
\* at (55, 40) the positions are (+30, +20) and (-970, -980) away.
Moves ==
    { [p |-> [x |-> 85, y |-> 60], d |-> <<0, -1>>],
      [p |-> [x |-> -915, y |-> -940], d |-> <<-1, -1>>],
      [p |-> [x |-> 85, y |-> 60], d |-> <<1, 0>>] }

(* --------------------------- number helpers ----------------------------- *)

IsNaN(a) == a = NaN

Add(a, b) == IF IsNaN(a) \/ IsNaN(b) THEN NaN ELSE a + b

Sub(a, b) == IF IsNaN(a) \/ IsNaN(b) THEN NaN ELSE a - b

\* Math.max(a, b): NaN if either argument is NaN
MathMax(a, b) == IF IsNaN(a) \/ IsNaN(b) THEN NaN ELSE IF a >= b THEN a ELSE b

\* a >= b in JavaScript: false when either side is NaN
Geq(a, b) == ~IsNaN(a) /\ ~IsNaN(b) /\ a >= b

\* a < b in JavaScript
Less(a, b) == ~IsNaN(a) /\ ~IsNaN(b) /\ a < b

\* a % n in JavaScript: the remainder takes the sign of the dividend
JsRem(a, n) == IF IsNaN(a) THEN NaN
               ELSE IF a >= 0 THEN a % n ELSE 0 - ((0 - a) % n)

\* x || d : d replaces a falsy x (0 or NaN)
OrDefault(x, d) == IF IsNaN(x) \/ x = 0 THEN d ELSE x

\* the mathematical wrap of an angle into [0, 360)
Wrap360(a) == IF IsNaN(a) THEN NaN ELSE a % 360

(* ------------------------------ elements -------------------------------- *)

\* appState.elements.find(e => e.id === id): index of the first match, 0 if none
FindIndex(els, id) ==
    IF \E i \in 1..Len(els) : els[i].id = id
    THEN CHOOSE i \in 1..Len(els) :
            els[i].id = id /\ \A j \in 1..(i - 1) : els[j].id # id
    ELSE 0

\* the element literal of createElement
NewElement(id, type, x, y, count) ==
    [ id       |-> id,
      type     |-> type,
      x        |-> OrDefault(x, DEFAULT_POS),
      y        |-> OrDefault(y, DEFAULT_POS),
      width    |-> IF type = "text" THEN DEFAULT_TEXT_W ELSE DEFAULT_RECT_W,
      height   |-> IF type = "text" THEN DEFAULT_TEXT_H ELSE DEFAULT_RECT_H,
      rotation |-> 0,
      zIndex   |-> count + 1 ]

\* the id createElement gives the new element
NewId(clock) == clock

\* Object.assign(el, updates): updates is a record of some of the fields
Assign(el, updates) ==
    LET Pick(f) == IF f \in DOMAIN updates THEN updates[f] ELSE el[f]
    IN  [ id       |-> Pick("id"),
          type     |-> Pick("type"),
          x        |-> Pick("x"),
          y        |-> Pick("y"),
          width    |-> Pick("width"),
          height   |-> Pick("height"),
          rotation |-> Pick("rotation"),
          zIndex   |-> Pick("zIndex") ]

\* the elements after updateElement(id, updates)
UpdateElement(els, id, updates) ==
    LET i == FindIndex(els, id)
    IN  IF i = 0 THEN els
        ELSE [els EXCEPT ![i] = Assign(els[i], updates)]

\* appState.elements.filter(e => e.id !== id)
FilterOut(els, id) == SelectSeq(els, LAMBDA e : e.id # id)

\* [...els].sort((a,b) => a.zIndex - b.zIndex): the sort is stable
SortByZ(els) ==
    LET N == Len(els)
        Rank(i) == 1 + Cardinality({ j \in 1..N :
                        \/ els[j].zIndex < els[i].zIndex
                        \/ els[j].zIndex = els[i].zIndex /\ j < i })
    IN  [ k \in 1..N |-> els[CHOOSE i \in 1..N : Rank(i) = k] ]

\* the swap of moveLayer
SwapAt(els, i, j) == [els EXCEPT ![i] = els[j], ![j] = els[i]]

\* appState.elements.forEach((el, i) => el.zIndex = i + 1)
Renumber(els) == [ i \in 1..Len(els) |-> [els[i] EXCEPT !.zIndex = i] ]

\* whether moveLayer(dir) gets past its early returns with selection sel
MoveLayerSwaps(els, sel, dir) ==
    /\ sel # NULL
    /\ FindIndex(els, sel) # 0
    /\ LET newPos == FindIndex(SortByZ(els), sel) + dir
       IN  newPos >= 1 /\ newPos <= Len(els)

\* moveLayer with the zIndex re-assignment after the swap left out
MoveLayerElemsNoRenumber(els, sel, dir) ==
    IF sel = NULL \/ FindIndex(els, sel) = 0 THEN els
    ELSE LET sorted == SortByZ(els)
             currentPos == FindIndex(sorted, sel)
             newPos == currentPos + dir
         IN  IF newPos < 1 \/ newPos > Len(sorted) THEN sorted
             ELSE SwapAt(sorted, currentPos, newPos)

\* appState.elements after moveLayer(dir) with selection sel
MoveLayerElems(els, sel, dir) ==
    IF sel = NULL \/ FindIndex(els, sel) = 0 THEN els
    ELSE LET sorted == SortByZ(els)
             currentPos == FindIndex(sorted, sel)
             newPos == currentPos + dir
         IN  IF newPos < 1 \/ newPos > Len(sorted) THEN sorted
             ELSE Renumber(SwapAt(sorted, currentPos, newPos))

(* ----------------------------- persistence ------------------------------ *)

\* JSON.stringify writes a NaN number as null
JsonNum(a) == IF IsNaN(a) THEN JsonNull ELSE a

\* JSON.stringify(appState.elements), as the list it parses back to
Stringify(els) ==
    [ i \in 1..Len(els) |->
        [els[i] EXCEPT !.x = JsonNum(@), !.y = JsonNum(@),
                       !.width = JsonNum(@), !.height = JsonNum(@),
                       !.rotation = JsonNum(@)] ]

\* the stored value after saveToStorage()
SaveToStorage(els) == [kind |-> "list", val |-> Stringify(els)]

\* what localStorage holds when the page is opened for the first time
EmptyStorage == [kind |-> "absent", val |-> <<>>]

\* a well-formed stored element, written by an earlier session
StoredRect ==
    [ id |-> 1, type |-> "rectangle", x |-> 100, y |-> 100,
      width |-> 150, height |-> 100, rotation |-> 0, zIndex |-> 1 ]

\* stored values a page can find at startup: nothing, text JSON.parse rejects,
\* JSON that is not an array (5, null, {}), an array of non-elements ([{}]),
\* a stored element list
BootStorages ==
    { EmptyStorage,
      [kind |-> "garbage", val |-> <<>>],
      [kind |-> "nonlist", val |-> <<>>],
      [kind |-> "badlist", val |-> <<>>],
      [kind |-> "list", val |-> <<>>],
      [kind |-> "list", val |-> <<StoredRect>>] }

\* appState.elements after loadFromStorage(), for the kinds that leave a list of
\* elements there
LoadFromStorage(st) == IF st.kind = "list" THEN st.val ELSE <<>>

\* whether renderAll() of init() throws on what loadFromStorage() left in
\* appState.elements: [...x] of a non-array, el.content.substring of a non-element
InitThrows(st) == st.kind \in {"nonlist", "badlist"}

(* ------------------------------ geometry -------------------------------- *)

\* 1000 * Math.cos(deg * Math.PI / 180), for the angles the inputs produce
\* (multiples of 45 degrees)
Cos1000(deg) ==
    LET a == deg % 360
    IN  CASE a = 0   -> 1000
          [] a = 45  -> 707
          [] a = 90  -> 0
          [] a = 135 -> -707
          [] a = 180 -> -1000
          [] a = 225 -> -707
          [] a = 270 -> 0
          [] a = 315 -> 707

\* 1000 * Math.sin(deg * Math.PI / 180)
Sin1000(deg) == Cos1000(deg - 90)

\* dx * Math.cos(rad) - dy * Math.sin(rad) with rad = -rotation, to the integer below
LocalDx(dx, dy, rotation) ==
    IF IsNaN(dx) \/ IsNaN(dy) \/ IsNaN(rotation) THEN NaN
    ELSE (dx * Cos1000(0 - rotation) - dy * Sin1000(0 - rotation)) \div 1000

\* dx * Math.sin(rad) + dy * Math.cos(rad) with rad = -rotation, to the integer below
LocalDy(dx, dy, rotation) ==
    IF IsNaN(dx) \/ IsNaN(dy) \/ IsNaN(rotation) THEN NaN
    ELSE (dx * Sin1000(0 - rotation) + dy * Cos1000(0 - rotation)) \div 1000

\* whether the handle name contains the letter: resizeHandle.includes(letter)
Includes(handle, letter) ==
    CASE letter = "e" -> handle \in {"ne", "se", "rotate"}
      [] letter = "w" -> handle \in {"nw", "sw"}
      [] letter = "s" -> handle \in {"sw", "se"}
      [] letter = "n" -> handle \in {"nw", "ne"}

\* handleResize with the Math.max(CONFIG.MIN_SIZE, ...) of its last lines left out
ResizeUpdatesNoClamp(el, init, handle, start, p) ==
    LET dx == Sub(p.x, start.x)
        dy == Sub(p.y, start.y)
        localDx == LocalDx(dx, dy, el.rotation)
        localDy == LocalDy(dx, dy, el.rotation)
        w1 == IF Includes(handle, "e") THEN Add(init.width, localDx) ELSE init.width
        newW == IF Includes(handle, "w") THEN Sub(init.width, localDx) ELSE w1
        h1 == IF Includes(handle, "s") THEN Add(init.height, localDy) ELSE init.height
        newH == IF Includes(handle, "n") THEN Sub(init.height, localDy) ELSE h1
    IN  [ width |-> newW, height |-> newH ]

\* the updates handleResize passes to updateElement
ResizeUpdates(el, init, handle, start, p) ==
    LET dx == Sub(p.x, start.x)
        dy == Sub(p.y, start.y)
        localDx == LocalDx(dx, dy, el.rotation)
        localDy == LocalDy(dx, dy, el.rotation)
        w1 == IF Includes(handle, "e") THEN Add(init.width, localDx) ELSE init.width
        newW == IF Includes(handle, "w") THEN Sub(init.width, localDx) ELSE w1
        h1 == IF Includes(handle, "s") THEN Add(init.height, localDy) ELSE init.height
        newH == IF Includes(handle, "n") THEN Sub(init.height, localDy) ELSE h1
    IN  [ width |-> MathMax(MIN_SIZE, newW), height |-> MathMax(MIN_SIZE, newH) ]

\* Math.atan2(dy, dx) * (180 / Math.PI) for a direction (dx, dy) along an axis or a diagonal
Atan2Deg(d) ==
    CASE d = <<1, 0>>   -> 0
      [] d = <<1, 1>>   -> 45
      [] d = <<0, 1>>   -> 90
      [] d = <<-1, 1>>  -> 135
      [] d = <<-1, 0>>  -> 180
      [] d = <<-1, -1>> -> -135
      [] d = <<0, -1>>  -> -90
      [] d = <<1, -1>>  -> -45

\* the updates handleRotate passes to updateElement; d is the direction of the
\* pointer from the centre (rect.left + el.x + el.width/2, rect.top + el.y + el.height/2)
RotateUpdates(el, d) ==
    [ rotation |-> IF IsNaN(el.x) \/ IsNaN(el.y) \/ IsNaN(el.width) \/ IsNaN(el.height)
                   THEN NaN
                   ELSE Atan2Deg(d) + 90 ]

\* the drag branch adding the pointer delta to the current position of the
\* selected element, in place of the snapshot position
DragUpdatesAccumulating(init, start, p) ==
    LET el == elements[FindIndex(elements, selectedId)]
    IN  [ x |-> Add(el.x, Sub(p.x, start.x)), y |-> Add(el.y, Sub(p.y, start.y)) ]

\* the updates of the drag branch of onGlobalMouseMove
DragUpdates(init, start, p) ==
    [ x |-> Add(init.x, Sub(p.x, start.x)), y |-> Add(init.y, Sub(p.y, start.y)) ]

\* the arrow keys with a step of 1 in place of 5
NudgeUpdatesStepOne(el, key) ==
    [ x |-> IF key = "ArrowLeft" THEN Sub(el.x, 1)
            ELSE IF key = "ArrowRight" THEN Add(el.x, 1) ELSE el.x,
      y |-> IF key = "ArrowUp" THEN Sub(el.y, 1)
            ELSE IF key = "ArrowDown" THEN Add(el.y, 1) ELSE el.y ]

\* the updates of the arrow keys in setupHotkeys
NudgeUpdates(el, key) ==
    [ x |-> IF key = "ArrowLeft" THEN Sub(el.x, STEP)
            ELSE IF key = "ArrowRight" THEN Add(el.x, STEP) ELSE el.x,
      y |-> IF key = "ArrowUp" THEN Sub(el.y, STEP)
            ELSE IF key = "ArrowDown" THEN Add(el.y, STEP) ELSE el.y ]

\* the updates of an input event on the numeric property field key
FieldUpdates(key, val) ==
    CASE key = "x"   -> [ x |-> val ]
      [] key = "y"   -> [ y |-> val ]
      [] key = "w"   -> [ width |-> MathMax(MIN_SIZE, val) ]
      [] key = "h"   -> [ height |-> MathMax(MIN_SIZE, val) ]
      [] key = "rot" -> [ rotation |-> JsRem(val, 360) ]

\* x and y createElement is called with by onCanvasMouseDown
CreateX(tool, p) == p.x - ArtLeft - (IF tool = "text" THEN 0 ELSE DEFAULT_RECT_W \div 2)

CreateY(tool, p) == p.y - ArtTop - (IF tool = "text" THEN 0 ELSE DEFAULT_RECT_H \div 2)

(* ------------------------------- states --------------------------------- *)

\* the ids of the elements the artboard and the layer list show
DomIds == { elements[i].id : i \in 1..Len(elements) }

\* appState.elements.find(x => x.id === appState.selectedId), as <<>> or <<el>>
Selected ==
    LET i == FindIndex(elements, selectedId)
    IN  IF i = 0 THEN <<>> ELSE <<elements[i]>>

Session == <<isDragging, isResizing, isRotating, dragStart, resizeHandle, initialElProps>>

\* the values Date.now() can return at a creation: the value of the previous
\* creation again or a later one; the first creation reads a value later than
\* the one at which the page was opened
ClockReads == IF now = InitClock THEN {now + 1} ELSE {now, now + 1}

\* the budget a handler uses (n creations, gesture starts and key or field
\* updates) and the selectElement calls it makes
Work(n, notes) == work + n <= MaxWork /\ work' = work + n /\ selNotes' = notes

Ready == pc = "ready"

Init ==
    /\ pc = "boot"
    /\ storage = EmptyStorage
    /\ now = InitClock
    /\ elements = <<>>
    /\ selectedId = NULL
    /\ activeTool = "select"
    /\ isDragging = FALSE
    /\ isResizing = FALSE
    /\ isRotating = FALSE
    /\ dragStart = [x |-> 0, y |-> 0]
    /\ resizeHandle = "null"
    /\ initialElProps = <<>>
    /\ work = 0
    /\ selNotes = 0

\* the page opened on any stored value
InitLoad ==
    /\ pc = "boot"
    /\ storage \in BootStorages
    /\ now = InitClock
    /\ elements = <<>>
    /\ selectedId = NULL
    /\ activeTool = "select"
    /\ isDragging = FALSE
    /\ isResizing = FALSE
    /\ isRotating = FALSE
    /\ dragStart = [x |-> 0, y |-> 0]
    /\ resizeHandle = "null"
    /\ initialElProps = <<>>
    /\ work = 0
    /\ selNotes = 0

(* ------------------------------- actions -------------------------------- *)

\* init(): loadFromStorage, setupEventListeners, setupHotkeys, renderAll.  When
\* renderAll throws, the listeners are registered but appState.elements is no
\* list of elements and every render of it throws again; the model follows
\* such a page no further than its toolbar.
InitPage ==
    /\ pc = "boot"
    /\ elements' = LoadFromStorage(storage)
    /\ IF InitThrows(storage)
       THEN pc' = "crashed" /\ storage' = storage
       ELSE pc' = "ready" /\ storage' = SaveToStorage(elements')
    /\ UNCHANGED <<now, selectedId, activeTool, isDragging, isResizing, isRotating,
                   dragStart, resizeHandle, initialElProps>>
    /\ Work(0, 0)

\* a toolbar button: setTool(tool)
SetToolTo(tool) ==
    /\ pc # "boot"
    /\ activeTool' = tool
    /\ UNCHANGED <<pc, storage, now, elements, selectedId, isDragging,
                   isResizing, isRotating, dragStart, resizeHandle, initialElProps>>
    /\ Work(0, 0)

SetTool == \E tool \in Tools : SetToolTo(tool)

\* mousedown on a resize or rotate handle: onCanvasMouseDown, startInteraction.
\* renderSelection puts handles only into the div of the selected element, and
\* every handler that clears the selection rebuilds the artboard, so a handle
\* can be hit only while an element is selected.
MouseDownHandleAt(handle, p) ==
    /\ Ready
    /\ selectedId # NULL
    /\ isResizing' = (handle \in ResizeHandles)
    /\ isRotating' = (handle = "rotate")
    /\ resizeHandle' = handle
    /\ IF Selected = <<>>
       THEN UNCHANGED <<dragStart, initialElProps>>
       ELSE dragStart' = p /\ initialElProps' = Selected
    /\ UNCHANGED <<pc, storage, now, elements, selectedId, activeTool,
                   isDragging>>
    /\ Work(1, 0)

MouseDownHandle == \E handle \in AllHandles, p \in Points : MouseDownHandleAt(handle, p)

\* the creation branch of onCanvasMouseDown going on to startDrag on the new
\* element, as the selection branch does
MouseDownCreateAtDragging(p, t) ==
    /\ Ready
    /\ activeTool # "select"
    /\ now' = t
    /\ elements' = Append(elements,
            NewElement(NewId(t), activeTool, CreateX(activeTool, p),
                       CreateY(activeTool, p), Len(elements)))
    /\ selectedId' = NewId(t)
    /\ storage' = SaveToStorage(elements')
    /\ activeTool' = "select"
    /\ isDragging' = TRUE
    /\ dragStart' = p
    /\ initialElProps' = <<elements'[Len(elements')]>>
    /\ UNCHANGED <<pc, isResizing, isRotating, resizeHandle>>
    /\ Work(1, 1)

\* mousedown on the artboard with a creation tool: createElement(tool, x, y),
\* which selects the new element and renders all, then setTool('select').
\* Date.now() returns t: the clock has advanced since it was last read, or not.
MouseDownCreateAt(p, t) ==
    /\ Ready
    /\ activeTool # "select"
    /\ now' = t
    /\ elements' = Append(elements,
            NewElement(NewId(t), activeTool, CreateX(activeTool, p),
                       CreateY(activeTool, p), Len(elements)))
    /\ selectedId' = NewId(t)
    /\ storage' = SaveToStorage(elements')
    /\ activeTool' = "select"
    /\ UNCHANGED <<pc, isDragging, isResizing, isRotating,
                   dragStart, resizeHandle, initialElProps>>
    /\ Work(1, 1)

MouseDownCreate == \E p \in CreatePoints, t \in ClockReads : MouseDownCreateAt(p, t)

\* mousedown on the body of an element with the select tool: selectElement, startDrag
MouseDownElementAt(target, p) ==
    /\ Ready
    /\ activeTool = "select"
    /\ selectedId' = target
    /\ isDragging' = TRUE
    /\ dragStart' = p
    /\ initialElProps' = <<elements[FindIndex(elements, target)]>>
    /\ UNCHANGED <<pc, storage, now, elements, activeTool, isResizing,
                   isRotating, resizeHandle>>
    /\ Work(1, 1)

MouseDownElement == \E target \in DomIds, p \in Points : MouseDownElementAt(target, p)

\* mousedown on the empty artboard with the select tool: clear the selection, renderAll
MouseDownEmpty ==
    /\ Ready
    /\ activeTool = "select"
    /\ selectedId' = NULL
    /\ storage' = SaveToStorage(elements)
    /\ UNCHANGED <<pc, now, elements, activeTool, isDragging, isResizing,
                   isRotating, dragStart, resizeHandle, initialElProps>>
    /\ Work(0, 0)

\* onGlobalMouseMove taking the drag branch whenever a snapshot is held, with
\* no test of the mode flags
MoveCallNoModeTest(p, d) ==
    IF selectedId = NULL \/ Selected = <<>> \/ initialElProps = <<>> THEN <<>>
    ELSE << [id |-> Selected[1].id,
             updates |-> DragUpdates(initialElProps[1], dragStart, p)] >>

\* the updateElement call of onGlobalMouseMove, as <<>> (none: no selection, no
\* mode flag, or the handler throws on a missing element or snapshot) or
\* <<[id, updates]>>
MoveCall(p, d) ==
    IF selectedId = NULL \/ Selected = <<>> THEN <<>>
    ELSE LET el == Selected[1]
         IN  IF isDragging
             THEN IF initialElProps = <<>> THEN <<>>
                  ELSE << [id |-> el.id,
                           updates |-> DragUpdates(initialElProps[1], dragStart, p)] >>
             ELSE IF isResizing
             THEN IF initialElProps = <<>> THEN <<>>
                  ELSE << [id |-> el.id,
                           updates |-> ResizeUpdates(el, initialElProps[1],
                                                     resizeHandle, dragStart, p)] >>
             ELSE IF isRotating
             THEN << [id |-> el.id, updates |-> RotateUpdates(el, d)] >>
             ELSE <<>>

\* the elements after the updateElement calls of a handler
Apply(els, calls) ==
    IF calls = <<>> THEN els
    ELSE UpdateElement(els, calls[1].id, calls[1].updates)

\* mousemove anywhere: onGlobalMouseMove, handleResize, handleRotate
MouseMoveTo(p, d) ==
    /\ Ready
    /\ elements' = Apply(elements, MoveCall(p, d))
    /\ UNCHANGED <<pc, storage, now, selectedId, activeTool, isDragging,
                   isResizing, isRotating, dragStart, resizeHandle, initialElProps>>
    /\ Work(0, 0)

MouseMove == \E m \in Moves : MouseMoveTo(m.p, m.d)

\* mouseup anywhere: onGlobalMouseUp
MouseUp ==
    /\ Ready
    /\ isDragging' = FALSE
    /\ isResizing' = FALSE
    /\ isRotating' = FALSE
    /\ storage' = SaveToStorage(elements)
    /\ UNCHANGED <<pc, now, elements, selectedId, activeTool, dragStart,
                   resizeHandle, initialElProps>>
    /\ Work(0, 0)

\* deleteSelected without its appState.selectedId = null
KeyDeleteKeepsSelection ==
    /\ Ready
    /\ IF selectedId = NULL
       THEN UNCHANGED <<elements, storage>>
       ELSE /\ elements' = FilterOut(elements, selectedId)
            /\ storage' = SaveToStorage(elements')
    /\ UNCHANGED <<pc, now, selectedId, activeTool, isDragging, isResizing,
                   isRotating, dragStart, resizeHandle, initialElProps>>
    /\ Work(0, 0)

\* keydown Delete or Backspace outside a text field: deleteSelected
KeyDelete ==
    /\ Ready
    /\ IF selectedId = NULL
       THEN UNCHANGED <<elements, selectedId, storage>>
       ELSE /\ elements' = FilterOut(elements, selectedId)
            /\ selectedId' = NULL
            /\ storage' = SaveToStorage(elements')
    /\ UNCHANGED <<pc, now, activeTool, isDragging, isResizing, isRotating,
                   dragStart, resizeHandle, initialElProps>>
    /\ Work(0, 0)

\* the updateElement call of an arrow key: none without a selection, none when
\* the destructuring of a missing element throws
ArrowCall(key) ==
    IF selectedId = NULL \/ Selected = <<>> THEN <<>>
    ELSE << [id |-> Selected[1].id, updates |-> NudgeUpdates(Selected[1], key)] >>

\* keydown of an arrow key outside an input
KeyArrowOf(key) ==
    /\ Ready
    /\ elements' = Apply(elements, ArrowCall(key))
    /\ UNCHANGED <<pc, storage, now, selectedId, activeTool, isDragging,
                   isResizing, isRotating, dragStart, resizeHandle, initialElProps>>
    /\ Work(Len(ArrowCall(key)), 0)

KeyArrow == \E key \in ArrowKeys : KeyArrowOf(key)

\* the updateElement call of an input event on a numeric property field
FieldCall(key, val) ==
    IF selectedId = NULL THEN <<>>
    ELSE << [id |-> selectedId, updates |-> FieldUpdates(key, val)] >>

\* input event on one of the numeric property fields x, y, w, h, rot
FieldInputOf(key, val) ==
    /\ Ready
    /\ elements' = Apply(elements, FieldCall(key, val))
    /\ UNCHANGED <<pc, storage, now, selectedId, activeTool, isDragging,
                   isResizing, isRotating, dragStart, resizeHandle, initialElProps>>
    /\ Work(Len(FieldCall(key, val)), 0)

FieldInput == \E key \in NumericKeys, val \in FieldValues : FieldInputOf(key, val)

\* click on an entry of the layer list: selectElement(el.id)
LayerClickOn(id) ==
    /\ Ready
    /\ selectedId' = id
    /\ UNCHANGED <<pc, storage, now, elements, activeTool, isDragging,
                   isResizing, isRotating, dragStart, resizeHandle, initialElProps>>
    /\ Work(0, 1)

LayerClick == \E id \in DomIds : LayerClickOn(id)

\* the layer-up and layer-down buttons: moveLayer(dir)
MoveLayerBy(dir) ==
    /\ Ready
    /\ elements' = MoveLayerElems(elements, selectedId, dir)
    /\ IF MoveLayerSwaps(elements, selectedId, dir)
       THEN storage' = SaveToStorage(elements')
       ELSE storage' = storage
    /\ UNCHANGED <<pc, now, selectedId, activeTool, isDragging, isResizing,
                   isRotating, dragStart, resizeHandle, initialElProps>>
    /\ Work(0, 0)

MoveLayer == \E dir \in {-1, 1} : MoveLayerBy(dir)

\* the save button
SaveButton ==
    /\ Ready
    /\ storage' = SaveToStorage(elements)
    /\ UNCHANGED <<pc, now, elements, selectedId, activeTool, isDragging,
                   isResizing, isRotating, dragStart, resizeHandle, initialElProps>>
    /\ Work(0, 0)

Next ==
    \/ InitPage
    \/ SetTool
    \/ MouseDownHandle
    \/ MouseDownCreate
    \/ MouseDownElement
    \/ MouseDownEmpty
    \/ MouseMove
    \/ MouseUp
    \/ KeyDelete
    \/ KeyArrow
    \/ FieldInput
    \/ LayerClick
    \/ MoveLayer
    \/ SaveButton

Spec == Init /\ [][Next]_vars

SpecLoad == InitLoad /\ [][Next]_vars

(* ------------------------------- claims --------------------------------- *)

N == Len(elements)

\* the set of zIndex values of a list of elements
ZSet(els) == { els[i].zIndex : i \in 1..Len(els) }

\* an element without its zIndex
Body(e) == <<e.id, e.type, e.x, e.y, e.width, e.height, e.rotation>>

\* the paint order of renderAll: the elements by ascending zIndex, without the zIndex
ZOrder(els) == [ k \in 1..Len(els) |-> Body(SortByZ(els)[k]) ]

\* C1 (as claimed): after every createElement, every deleteSelected and every
\* moveLayer call the set of zIndex values is exactly 1..N.
C1_DenseAfterSceneOps ==
    [][(MouseDownCreate \/ KeyDelete \/ MoveLayer)
           => ZSet(elements') = 1..Len(elements')]_vars

\* C2 (as claimed): in every reachable state every element has
\* width >= MIN_SIZE and height >= MIN_SIZE.
C2_MinSize ==
    \A i \in 1..N : Geq(elements[i].width, MIN_SIZE) /\ Geq(elements[i].height, MIN_SIZE)

\* C3 (as claimed): every stored rotation is in [0, 360).
C3_RotationInRange ==
    \A i \in 1..N : Geq(elements[i].rotation, 0) /\ Less(elements[i].rotation, 360)

\* C4 (as claimed): in every reachable state the zIndex values of the elements
\* are pairwise distinct.
C4_DistinctZ ==
    \A i, j \in 1..N : i # j => elements[i].zIndex # elements[j].zIndex

\* what C5 says updateElement leaves in the element after the call c:
\* width and height at least MIN_SIZE (a smaller request clamped to MIN_SIZE),
\* rotation the requested rotation wrapped modulo 360
Enforced(els, calls) ==
    calls # <<>> =>
        LET u == calls[1].updates
            el == els[FindIndex(els, calls[1].id)]
        IN  /\ "width" \in DOMAIN u =>
                 /\ Geq(el.width, MIN_SIZE)
                 /\ Less(u.width, MIN_SIZE) => el.width = MIN_SIZE
            /\ "height" \in DOMAIN u =>
                 /\ Geq(el.height, MIN_SIZE)
                 /\ Less(u.height, MIN_SIZE) => el.height = MIN_SIZE
            /\ "rotation" \in DOMAIN u => el.rotation = Wrap360(u.rotation)

\* C5 (as claimed): after every updateElement(id, partialFields) on a present
\* id the stored width and height are >= MIN_SIZE and the stored rotation is
\* the requested rotation wrapped modulo 360.
C5_MergeEnforces ==
    [][ /\ \A m \in Moves :
              MouseMoveTo(m.p, m.d) => Enforced(elements', MoveCall(m.p, m.d))
        /\ \A key \in ArrowKeys :
              KeyArrowOf(key) => Enforced(elements', ArrowCall(key))
        /\ \A key \in NumericKeys, val \in FieldValues :
              FieldInputOf(key, val) /\ Selected # <<>>
                  => Enforced(elements', FieldCall(key, val)) ]_vars

\* C6 (as claimed): immediately after each create, each update (arrow nudge,
\* property-field edit, pointerMove), each delete, each reorder and each
\* pointerUp the stored list is the current element list.
C6_CheckpointAfterMutation ==
    [][(MouseDownCreate \/ KeyArrow \/ FieldInput \/ MouseMove \/ KeyDelete
            \/ MoveLayer \/ MouseUp)
           => storage' = SaveToStorage(elements')]_vars

\* C7 (as claimed): for every stored value init() completes, and when the
\* stored value is absent, does not parse or parses to something that is not a
\* list of elements, the scene is the empty list.
C7_LoadNeverFails ==
    [][InitPage => /\ pc' = "ready"
                   /\ (storage.kind # "list" => elements' = <<>>)]_vars

\* C8 (as claimed): in every reachable state no two elements share an id.
C8_UniqueIds ==
    \A i, j \in 1..N : i # j => elements[i].id # elements[j].id

\* C9 (as claimed): selectElement(id) on the id that is already selected is
\* a no-op: it emits no selection-change notification.
C9_SelectIdempotent ==
    [][\A id \in DomIds : LayerClickOn(id) /\ selectedId = id => selNotes' = 0]_vars

C11_ResizeUnrotated ==
    [][\A m \in Moves :
          MouseMoveTo(m.p, m.d) /\ isResizing /\ ~isDragging
            /\ Selected # <<>> /\ Selected[1].rotation = 0 =>
              /\ initialElProps # <<>>
              /\ LET init == initialElProps[1]
                     dx == m.p.x - dragStart.x
                     dy == m.p.y - dragStart.y
                     old == Selected[1]
                     new == elements'[FindIndex(elements, selectedId)]
                 IN  /\ resizeHandle \in ResizeHandles
                     /\ new.width = IF resizeHandle \in {"ne", "se"}
                                    THEN MathMax(MIN_SIZE, Add(init.width, dx))
                                    ELSE MathMax(MIN_SIZE, Sub(init.width, dx))
                     /\ new.height = IF resizeHandle \in {"sw", "se"}
                                     THEN MathMax(MIN_SIZE, Add(init.height, dy))
                                     ELSE MathMax(MIN_SIZE, Sub(init.height, dy))
                     /\ new.x = old.x /\ new.y = old.y]_vars

\* C11 witness: the se handle of an unrotated element has been moved by
\* (+30, +20): the element is 30 wider and 20 higher than its snapshot
C11_Witness ==
    /\ isResizing /\ ~isDragging /\ resizeHandle = "se"
    /\ initialElProps # <<>> /\ Selected # <<>>
    /\ Selected[1].rotation = 0
    /\ Selected[1].width = initialElProps[1].width + 30
    /\ Selected[1].height = initialElProps[1].height + 20
    /\ Selected[1].x = initialElProps[1].x /\ Selected[1].y = initialElProps[1].y

\* the elements with the fields x and y of the element at index i replaced
WithXY(els, i, x, y) == [els EXCEPT ![i].x = x, ![i].y = y]

\* C12: an arrow key with an element selected changes exactly one coordinate
\* of the selected element by the step 5 (up: y - 5, down: y + 5, left: x - 5,
\* right: x + 5) and leaves its other fields, the selection and every other
\* element unchanged; with no selection it changes nothing.
C12_ArrowNudge ==
    [][\A key \in ArrowKeys :
          KeyArrowOf(key) =>
              /\ selectedId' = selectedId
              /\ IF Selected = <<>>
                 THEN elements' = elements
                 ELSE LET i == FindIndex(elements, selectedId)
                          el == elements[i]
                      IN  elements' =
                            CASE key = "ArrowUp"    -> WithXY(elements, i, el.x, Sub(el.y, STEP))
                              [] key = "ArrowDown"  -> WithXY(elements, i, el.x, Add(el.y, STEP))
                              [] key = "ArrowLeft"  -> WithXY(elements, i, Sub(el.x, STEP), el.y)
                              [] key = "ArrowRight" -> WithXY(elements, i, Add(el.x, STEP), el.y)]_vars

\* C12 witness: ArrowUp has moved the selected one of two elements from its
\* creation position y = 100 to y = 95; x and the other element are as created
C12_Witness ==
    /\ N = 2 /\ Selected # <<>>
    /\ Selected[1].x = DEFAULT_POS /\ Selected[1].y = DEFAULT_POS - STEP
    /\ \E j \in 1..N : elements[j].id # selectedId /\ elements[j] = StoredRect

\* C13 (as claimed): after every moveLayer call on an existing selected
\* element, the clamped calls at the top and the bottom included, the elements
\* are in z-order and their zIndex values are exactly 1..N.
C13_DenseAfterEveryReorder ==
    [][\A dir \in {-1, 1} :
          MoveLayerBy(dir) /\ Selected # <<>> =>
              \A k \in 1..Len(elements') : elements'[k].zIndex = k]_vars

\* C14 (as claimed): pointerUp in Dragging, Resizing or Rotating discards the
\* interaction session: no mode flag is set, the active handle is none and no
\* element snapshot is retained.
C14_PointerUpDiscardsSession ==
    [][MouseUp /\ (isDragging \/ isResizing \/ isRotating) =>
          /\ ~isDragging' /\ ~isResizing' /\ ~isRotating'
          /\ resizeHandle' = "null"
          /\ initialElProps' = <<>>]_vars

Idle == ~isDragging /\ ~isResizing /\ ~isRotating

\* onCanvasMouseDown of a mousedown whose target is the body of the element
\* target: the creation branch comes first and does not look at the target
MouseDownBodyAt(target, p, t) ==
    IF activeTool # "select" THEN MouseDownCreateAt(p, t)
    ELSE MouseDownElementAt(target, p)

\* C16 (as claimed): from Idle a pointerDown on the body of an existing
\* element selects that element and enters Dragging, whatever the active
\* tool, and leaves the number of elements unchanged.
C16_BodyDownDrags ==
    [][\A target \in DomIds, p \in Points \cup CreatePoints, t \in ClockReads :
          MouseDownBodyAt(target, p, t) /\ Idle =>
              /\ selectedId' = target
              /\ isDragging' /\ ~isResizing' /\ ~isRotating'
              /\ Len(elements') = Len(elements)]_vars

\* C17: from Idle a pointerDown with the rectangle or text tool appends
\* exactly one element of that kind, makes its id the selection, resets the
\* tool to select and leaves the machine Idle, so that the next pointerMove
\* updates nothing; with the select tool a pointerDown on the empty canvas
\* clears the selection, adds no element and stays Idle.
C17_CreateStaysIdle ==
    [][/\ \A p \in CreatePoints, t \in ClockReads :
             MouseDownCreateAt(p, t) /\ Idle =>
                 /\ Len(elements') = N + 1
                 /\ SubSeq(elements', 1, N) = elements
                 /\ elements'[N + 1].type = activeTool
                 /\ selectedId' = elements'[N + 1].id
                 /\ activeTool' = "select"
                 /\ Idle'
                 /\ \A m \in Moves : MoveCall(m.p, m.d)' = <<>>
       /\ MouseDownEmpty /\ Idle =>
             /\ selectedId' = NULL
             /\ elements' = elements
             /\ Idle']_vars

\* C17 witness: the text tool has created the only element of the scene: it
\* is selected, the tool is select again and no mode flag is set
C17_Witness ==
    /\ N = 1 /\ elements[1].type = "text"
    /\ selectedId = elements[1].id
    /\ activeTool = "select" /\ Idle
    /\ selNotes = 1

\* C18 (as claimed): an element created by pointerDown at the artboard-local
\* position (px, py) has x = px - DEFAULT_RECT_W / 2 and
\* y = py - DEFAULT_RECT_H / 2 if it is a rectangle and x = px, y = py if it
\* is a text element, also where that coordinate is 0 or negative.
C18_CreationPosition ==
    [][\A p \in CreatePoints, t \in ClockReads :
          MouseDownCreateAt(p, t) =>
              LET px == p.x - ArtLeft
                  py == p.y - ArtTop
                  new == elements'[Len(elements')]
              IN  IF activeTool = "rectangle"
                  THEN /\ new.x = px - DEFAULT_RECT_W \div 2
                       /\ new.y = py - DEFAULT_RECT_H \div 2
                  ELSE new.x = px /\ new.y = py]_vars

\* the list without its entry at index i
RemoveAt(els, i) == [ k \in 1..(Len(els) - 1) |-> IF k < i THEN els[k] ELSE els[k + 1] ]

\* C19 (as claimed): the delete command removes exactly the selected element,
\* sets the selection to none and leaves every remaining element unchanged in
\* all fields, zIndex included; with no selection it changes nothing.
C19_DeleteExactlySelected ==
    [][KeyDelete =>
          IF selectedId = NULL
          THEN elements' = elements /\ selectedId' = NULL
          ELSE /\ selectedId' = NULL
               /\ Selected # <<>>
               /\ elements' = RemoveAt(elements, FindIndex(elements, selectedId))]_vars

\* C19 with the ids of the scene taken to be pairwise distinct (not the
\* program's behaviour: see C8)
C19_DeleteUnderUniqueIds ==
    [][KeyDelete /\ C8_UniqueIds =>
          IF selectedId = NULL
          THEN elements' = elements /\ selectedId' = NULL
          ELSE /\ selectedId' = NULL
               /\ Selected # <<>>
               /\ elements' = RemoveAt(elements, FindIndex(elements, selectedId))]_vars

\* C20: a pointerMove in Idle (no gesture started, or after pointerUp) leaves
\* every element, the selection, the active tool and the session unchanged,
\* whatever the selection and the pointer position.
C20_IdleMoveNoOp ==
    [][\A m \in Moves :
          MouseMoveTo(m.p, m.d) /\ Idle =>
              UNCHANGED <<elements, selectedId, activeTool, isDragging, isResizing,
                          isRotating, dragStart, resizeHandle, initialElProps>>]_vars

\* C20 witness: a drag that moved the selected element has ended with
\* pointerUp; the machine is Idle and still holds the pointer origin and the
\* snapshot of that gesture
C20_Witness ==
    /\ Idle /\ Selected # <<>> /\ initialElProps # <<>>
    /\ dragStart \in Points
    /\ Selected[1].x = Add(initialElProps[1].x, 30)
    /\ storage = SaveToStorage(elements)

\* C21 (as claimed): in every reachable state at most one of the flags
\* isDragging, isResizing, isRotating is true.
C21_SingleMode ==
    /\ ~(isDragging /\ isResizing)
    /\ ~(isDragging /\ isRotating)
    /\ ~(isResizing /\ isRotating)

\* C22 (as claimed): whenever a pointerMove mutates an element, the snapshot
\* initialElProps was taken from that same element: a snapshot is held and
\* its id is the id of the selection.
C22_GestureOnItsElement ==
    [][\A m \in Moves :
          MouseMoveTo(m.p, m.d) /\ MoveCall(m.p, m.d) # <<>> =>
              /\ initialElProps # <<>>
              /\ initialElProps[1].id = selectedId]_vars

\* C23: in every reachable state selectedId is null or the id of an element
\* of the scene.
C23_SelectionNotDangling == selectedId = NULL \/ selectedId \in DomIds

\* C23 witness: one of two elements was deleted while it was selected, and
\* the survivor (at zIndex 2) was selected afterwards
C23_Witness ==
    /\ N = 1 /\ elements[1].zIndex = 2
    /\ selectedId = elements[1].id

====
